---- MODULE Spec2Model ----
(***************************************************************************)
(* Model of pal_rsa.cpp, the native RSA shim of                            *)
(* System.Security.Cryptography.Native.  Every exported function forwards  *)
(* to one primitive of the cryptographic library.  The shim's own code     *)
(* (null guards, the padding flag, the argument and result forwarding) is  *)
(* translated from pal_rsa.cpp; the library primitives it calls are not    *)
(* part of the file and are modelled by their contract: keys are reference *)
(* counted objects, ciphertexts and signatures are symbolic terms that     *)
(* name the key, the padding or digest type and the message they were made *)
(* from.                                                                   *)
(*                                                                         *)
(* Inputs the model does not enumerate (each is undefined behaviour inside *)
(* the library, not a case any statement below is about): a null or        *)
(* dangling handle given to RsaPublicEncrypt, RsaPrivateDecrypt, RsaSign,  *)
(* RsaVerify, RsaSize or RsaGenerateKeyEx, an unpopulated key given to the *)
(* cryptographic operations, a public-only key given to a private-key      *)
(* operation, a null handle given to RsaUpRef, a negative flen.            *)
(***************************************************************************)
EXTENDS Integers, Sequences, FiniteSets, TLC

VARIABLES
    heap,    \* handle -> the RSA object at that address
    cnt,     \* handle -> calls made on it (history, for the lifetime claims)
    buf,     \* the caller's output buffer: what the last writing call left in it
    call,    \* the last shim call: its arguments, the primitive calls it made, its result
    gen,     \* the key generation in progress, if any
    status   \* "running", or "aborted" once a call has crashed the process

vars == <<heap, cnt, buf, call, gen, status>>

----------------------------------------------------------------------------
(* Bounds of the model *)

MaxKeys == 1      \* RSA objects ever allocated
MaxUpRef == 2     \* RsaUpRef calls counted per object
MaxTrials == 2    \* candidates a generation is seen to reject before it ends
DerLen == 2       \* length of the encoded public key the decoder is offered

----------------------------------------------------------------------------
(* Program constants *)

NULL == 0                        \* nullptr, as a handle or an int32_t* argument
RSA_PKCS1_PADDING == 1
RSA_PKCS1_OAEP_PADDING == 4
INT32_MAX == 2147483647

Handles == 1..MaxKeys
NullBuf == "nullptr"
Bufs == {NullBuf, "der1", "der2", "junk"}  \* encodings of two public keys, and garbage
DecodeLens == 0..DerLen
Flags == {-1, 0, 1}              \* useOaepPadding
Types == {64, 672}               \* digest NIDs: SHA-1, SHA-256
Msgs == {"a", "b"}               \* contents of the caller's input buffer
KeyIds == 1..2                   \* distinct key pairs the library can produce
GenBits == {256, 512}
Exponents == {3, 65537}
FLens == {0, 22, 23, 53, 54}
MLens == {-1, 20, 32}

NoMat == [id |-> 0, k |-> 0, priv |-> FALSE]
NoBuf == [kind |-> "none", key |-> 0, k |-> 0, mode |-> 0, msg |-> "", len |-> 0, n |-> 0, flag |-> 0]
NoGen == [pc |-> "idle", rsa |-> NULL, req |-> <<>>, args |-> <<>>, cancel |-> FALSE, trials |-> 0]
Unalloc == [st |-> "unalloc", refs |-> 0, mat |-> NoMat]
NoCnt == [up |-> 0, de |-> 0, fr |-> 0, dangling |-> FALSE]

Init ==
    /\ heap = [h \in Handles |-> Unalloc]
    /\ cnt = [h \in Handles |-> NoCnt]
    /\ buf = NoBuf
    /\ call = [fn |-> "none"]
    /\ gen = NoGen
    /\ status = "running"

Idle == status = "running" /\ gen.pc = "idle"

Aborted(c) ==
    /\ status' = "aborted"
    /\ call' = c
    /\ UNCHANGED <<heap, cnt, buf, gen>>

----------------------------------------------------------------------------
(* The library's key objects: reference counted, freed when the count     *)
(* reaches zero (private material wiped with the object).                 *)

RSA_new == [st |-> "live", refs |-> 1, mat |-> NoMat]

RSA_up_ref(key) == [key EXCEPT !.refs = @ + 1]

RSA_free(key) ==
    IF key.refs > 1
    THEN [key EXCEPT !.refs = @ - 1]
    ELSE [st |-> "freed", refs |-> 0, mat |-> NoMat]

FreshHandles == {h \in Handles : heap[h].st = "unalloc"}
Fresh(h) == h \in FreshHandles /\ \A g \in FreshHandles : h <= g
Obtained == {h \in Handles : heap[h].st # "unalloc"}
Live == {h \in Handles : heap[h].st = "live"}
Populated == {h \in Live : heap[h].mat # NoMat}
Private == {h \in Populated : heap[h].mat.priv}

----------------------------------------------------------------------------
(* RsaCreate: return RSA_new(), a new empty object or null.                *)

RsaCreate ==
    /\ Idle
    /\ FreshHandles # {}
    /\ \/ \E h \in Handles :
            /\ Fresh(h)
            /\ heap' = [heap EXCEPT ![h] = RSA_new]
            /\ call' = [fn |-> "RsaCreate", ret |-> h, outcome |-> "returned"]
       \/ /\ heap' = heap
          /\ call' = [fn |-> "RsaCreate", ret |-> NULL, outcome |-> "returned"]
    /\ UNCHANGED <<cnt, buf, gen, status>>

(* RsaUpRef: return RSA_up_ref(rsa).  On a freed object the call reads and *)
(* writes released memory: it may crash, or return with no visible effect. *)
(* The model follows one call on a freed object per object.                *)

RsaUpRef_NoReference(h) ==
    /\ Idle
    /\ h \in Live
    /\ cnt[h].up < MaxUpRef
    /\ cnt' = [cnt EXCEPT ![h].up = @ + 1]
    /\ call' = [fn |-> "RsaUpRef", rsa |-> h, ret |-> 1, outcome |-> "returned"]
    /\ UNCHANGED <<heap, buf, gen, status>>

RsaUpRef(h) ==
    /\ Idle
    /\ h \in Obtained
    /\ cnt[h].up < MaxUpRef
    /\ IF heap[h].st = "live"
       THEN /\ heap' = [heap EXCEPT ![h] = RSA_up_ref(heap[h])]
            /\ cnt' = [cnt EXCEPT ![h].up = @ + 1]
            /\ call' = [fn |-> "RsaUpRef", rsa |-> h, ret |-> 1, outcome |-> "returned"]
            /\ UNCHANGED <<buf, gen, status>>
       ELSE /\ ~cnt[h].dangling
            /\ \/ Aborted([fn |-> "RsaUpRef", rsa |-> h, ret |-> 0, outcome |-> "aborted"])
               \/ /\ cnt' = [cnt EXCEPT ![h].up = @ + 1, ![h].dangling = TRUE]
                  /\ call' = [fn |-> "RsaUpRef", rsa |-> h, ret |-> 1, outcome |-> "returned"]
                  /\ UNCHANGED <<heap, buf, gen, status>>

(* RsaDestroy: if (rsa != nullptr) RSA_free(rsa).  On a freed object the   *)
(* call is a second release: it may crash, free the memory again, or       *)
(* return with no visible effect (one such call per object is followed).   *)

RsaDestroy(h) ==
    /\ Idle
    /\ h \in Obtained \cup {NULL}
    /\ IF h = NULL
       THEN /\ call' = [fn |-> "RsaDestroy", rsa |-> h, ret |-> 0, outcome |-> "returned"]
            /\ UNCHANGED <<heap, cnt, buf, gen, status>>
       ELSE IF heap[h].st = "live"
            THEN /\ heap' = [heap EXCEPT ![h] = RSA_free(heap[h])]
                 /\ cnt' = [cnt EXCEPT ![h].de = @ + 1,
                                       ![h].fr = IF heap'[h].st = "freed" THEN @ + 1 ELSE @]
                 /\ call' = [fn |-> "RsaDestroy", rsa |-> h, ret |-> 0, outcome |-> "returned"]
                 /\ UNCHANGED <<buf, gen, status>>
            ELSE /\ ~cnt[h].dangling
                 /\ \/ Aborted([fn |-> "RsaDestroy", rsa |-> h, ret |-> 0, outcome |-> "aborted"])
                    \/ /\ \E again \in {0, 1} :
                            cnt' = [cnt EXCEPT ![h].de = @ + 1, ![h].fr = @ + again,
                                               ![h].dangling = TRUE]
                       /\ call' = [fn |-> "RsaDestroy", rsa |-> h, ret |-> 0, outcome |-> "returned"]
                       /\ UNCHANGED <<heap, buf, gen, status>>

----------------------------------------------------------------------------
(* DecodeRsaPublicKey: if (!buf || !len) return nullptr;                   *)
(*                     return d2i_RSAPublicKey(nullptr, &buf, len).        *)

DecodeGuard_BothAbsent(b, len) == b = NullBuf /\ len = 0

DecodeGuard(b, len) == b = NullBuf \/ len = 0

(* The decoder allocates a new object holding the public half of the key   *)
(* pair the buffer encodes (a 512-bit modulus) when the length covers the  *)
(* whole encoding, and returns null otherwise.                             *)
d2i_RSAPublicKey(b, len) ==
    IF b \in {"der1", "der2"} /\ len >= DerLen
    THEN [st |-> "live", refs |-> 1,
          mat |-> [id |-> IF b = "der1" THEN 1 ELSE 2, k |-> 64, priv |-> FALSE]]
    ELSE Unalloc

DecodeRsaPublicKey_Reuse(b, len) ==
    /\ Idle
    /\ ~DecodeGuard(b, len)
    /\ d2i_RSAPublicKey(b, len).st = "live"
    /\ \E h \in Live :
         /\ heap' = [heap EXCEPT ![h].mat = d2i_RSAPublicKey(b, len).mat]
         /\ call' = [fn |-> "DecodeRsaPublicKey", buf |-> b, len |-> len,
                     prim |-> <<[fn |-> "d2i_RSAPublicKey", buf |-> b, len |-> len]>>,
                     ret |-> h, outcome |-> "returned"]
    /\ UNCHANGED <<cnt, buf, gen, status>>

DecodeRsaPublicKey(b, len) ==
    /\ Idle
    /\ LET c == [fn |-> "DecodeRsaPublicKey", buf |-> b, len |-> len]
           d2i == [fn |-> "d2i_RSAPublicKey", buf |-> b, len |-> len]
       IN IF DecodeGuard(b, len)
          THEN /\ call' = c @@ [prim |-> <<>>, ret |-> NULL, outcome |-> "returned"]
               /\ UNCHANGED <<heap, cnt, buf, gen, status>>
          ELSE IF b = NullBuf
          THEN Aborted(c @@ [prim |-> <<d2i>>, ret |-> NULL, outcome |-> "aborted"])
          ELSE   LET key == d2i_RSAPublicKey(b, len)
                 IN /\ IF key.st = "live" /\ FreshHandles # {}
                       THEN \E h \in Handles :
                              /\ Fresh(h)
                              /\ heap' = [heap EXCEPT ![h] = key]
                              /\ call' = c @@ [prim |-> <<d2i>>, ret |-> h, outcome |-> "returned"]
                       ELSE /\ heap' = heap
                            /\ call' = c @@ [prim |-> <<d2i>>, ret |-> NULL, outcome |-> "returned"]
                    /\ UNCHANGED <<cnt, buf, gen, status>>


----------------------------------------------------------------------------
(* The library's encryption primitives.  A ciphertext names the key pair,  *)
(* the padding mode and the message it was made from; decryption with the  *)
(* private key of that pair and the same padding mode returns the message, *)
(* anything else fails with -1.  A message must leave room for the         *)
(* padding: 11 bytes for PKCS#1 v1.5, 2 * hLen + 2 = 42 bytes for OAEP.    *)

Content(m, len) == IF len = 0 THEN "" ELSE m

PaddingOverhead(padding) ==
    IF padding = RSA_PKCS1_PADDING THEN 11
    ELSE IF padding = RSA_PKCS1_OAEP_PADDING THEN 42
    ELSE 0

KnownPadding(padding) == padding \in {RSA_PKCS1_PADDING, RSA_PKCS1_OAEP_PADDING}

RSA_size(mat) == mat.k

RSA_public_encrypt(flen, from, mat, padding) ==
    IF KnownPadding(padding) /\ flen >= 0 /\ flen <= mat.k - PaddingOverhead(padding)
    THEN [ret |-> RSA_size(mat),
          to |-> [kind |-> "ct", key |-> mat.id, k |-> mat.k, mode |-> padding,
                  msg |-> Content(from, flen), len |-> flen]]
    ELSE [ret |-> -1, to |-> [kind |-> "none"]]

RSA_private_decrypt(flen, from, mat, padding) ==
    IF /\ mat.priv
       /\ flen = RSA_size(mat)
       /\ from.kind = "ct"
       /\ from.key = mat.id /\ from.k = mat.k
       /\ from.mode = padding
    THEN [ret |-> from.len,
          to |-> [kind |-> "pt", key |-> 0, k |-> 0, mode |-> 0,
                  msg |-> from.msg, len |-> from.len]]
    ELSE [ret |-> -1, to |-> [kind |-> "none"]]

(* What the caller's buffer holds after a primitive returned r: the bytes  *)
(* written, with the length and the flag the caller knows them by.         *)
Written(r, n, flag) ==
    IF r.to.kind = "none" THEN buf ELSE r.to @@ [n |-> n, flag |-> flag]

----------------------------------------------------------------------------
(* RsaPublicEncrypt:                                                       *)
(*   int padding = useOaepPadding ? RSA_PKCS1_OAEP_PADDING                 *)
(*                                : RSA_PKCS1_PADDING;                     *)
(*   return RSA_public_encrypt(flen, from, to, rsa, padding);              *)

EncryptArgs_PositiveOnly(flen, from, rsa, useOaepPadding) ==
    [flen |-> flen, from |-> from, rsa |-> rsa,
     padding |-> IF useOaepPadding > 0 THEN RSA_PKCS1_OAEP_PADDING ELSE RSA_PKCS1_PADDING]

EncryptArgs(flen, from, rsa, useOaepPadding) ==
    [flen |-> flen, from |-> from, rsa |-> rsa,
     padding |-> IF useOaepPadding # 0 THEN RSA_PKCS1_OAEP_PADDING ELSE RSA_PKCS1_PADDING]

RsaPublicEncrypt(flen, from, h, useOaepPadding) ==
    /\ Idle
    /\ h \in Populated
    /\ LET a == EncryptArgs(flen, from, h, useOaepPadding)
           r == RSA_public_encrypt(a.flen, a.from, heap[a.rsa].mat, a.padding)
       IN /\ call' = [fn |-> "RsaPublicEncrypt", flen |-> flen, from |-> from, rsa |-> h,
                      flag |-> useOaepPadding,
                      prim |-> <<[fn |-> "RSA_public_encrypt", ret |-> r.ret, to |-> r.to] @@ a>>,
                      ret |-> r.ret, outcome |-> "returned"]
          /\ buf' = Written(r, r.ret, useOaepPadding)
    /\ UNCHANGED <<heap, cnt, gen, status>>

(* RsaPrivateDecrypt: the same, with RSA_private_decrypt.  The caller      *)
(* passes the buffer it holds and the length it knows it by.               *)

DecryptArgs_Swapped(flen, from, rsa, useOaepPadding) ==
    [flen |-> flen, from |-> from, rsa |-> rsa,
     padding |-> IF useOaepPadding # 0 THEN RSA_PKCS1_PADDING ELSE RSA_PKCS1_OAEP_PADDING]

DecryptArgs(flen, from, rsa, useOaepPadding) ==
    [flen |-> flen, from |-> from, rsa |-> rsa,
     padding |-> IF useOaepPadding # 0 THEN RSA_PKCS1_OAEP_PADDING ELSE RSA_PKCS1_PADDING]

RsaPrivateDecrypt(flen, from, h, useOaepPadding) ==
    /\ Idle
    /\ h \in Private
    /\ LET a == DecryptArgs(flen, from, h, useOaepPadding)
           r == RSA_private_decrypt(a.flen, a.from, heap[a.rsa].mat, a.padding)
       IN /\ call' = [fn |-> "RsaPrivateDecrypt", flen |-> flen, from |-> from, rsa |-> h,
                      flag |-> useOaepPadding,
                      prim |-> <<[fn |-> "RSA_private_decrypt", ret |-> r.ret, to |-> r.to] @@ a>>,
                      ret |-> r.ret, outcome |-> "returned"]
          /\ buf' = Written(r, r.ret, useOaepPadding)
    /\ UNCHANGED <<heap, cnt, gen, status>>

(* RsaSize: return RSA_size(rsa). *)

RsaSize(h) ==
    /\ Idle
    /\ h \in Populated
    /\ call' = [fn |-> "RsaSize", rsa |-> h, ret |-> RSA_size(heap[h].mat), outcome |-> "returned"]
    /\ UNCHANGED <<heap, cnt, buf, gen, status>>


----------------------------------------------------------------------------
(* UnsignedCast (pal_utilities.h): asserts its argument is not negative    *)
(* and converts it to the unsigned type of the same width.  A build with   *)
(* assertions stops the process at a failed assert, a build without them   *)
(* converts the value.                                                     *)

(* An unsigned 32-bit value is held as its top bit and its low 31 bits:     *)
(* its value is hi * 2^31 + lo.                                            *)
Unsigned(n) == [hi |-> 0, lo |-> n]

UnsignedCastAsserts(v) == v >= 0
UnsignedCast(v) ==
    IF v >= 0 THEN [hi |-> 0, lo |-> v] ELSE [hi |-> 1, lo |-> (v + INT32_MAX) + 1]

(* The library's signing primitives (PKCS#1 v1.5 signatures).  A signature *)
(* names the key pair, the digest type and the hash it was made from; its  *)
(* length is the key's size.  The hash must have the digest type's length  *)
(* and the encoded digest must fit in the key with 11 bytes of padding.    *)

DigestLen(type) == IF type = 64 THEN 20 ELSE 32
DigestInfoLen(type) == DigestLen(type) + (IF type = 64 THEN 15 ELSE 19)

RSA_sign(type, m, m_len, siglen0, mat) ==
    IF /\ mat.priv
       /\ type \in Types
       /\ m_len = Unsigned(DigestLen(type))
       /\ DigestInfoLen(type) + 11 <= RSA_size(mat)
    THEN [ret |-> 1, siglen |-> Unsigned(RSA_size(mat)),
          to |-> [kind |-> "sig", key |-> mat.id, k |-> mat.k, mode |-> type,
                  msg |-> Content(m, m_len.lo), len |-> m_len.lo]]
    ELSE [ret |-> 0, siglen |-> siglen0, to |-> [kind |-> "none"]]

RSA_verify(type, m, m_len, sigbuf, siglen, mat) ==
    IF /\ siglen = Unsigned(RSA_size(mat))
       /\ sigbuf.kind = "sig"
       /\ sigbuf.key = mat.id /\ sigbuf.k = mat.k
       /\ sigbuf.mode = type
       /\ m_len = Unsigned(DigestLen(type))
       /\ sigbuf.msg = Content(m, m_len.lo) /\ sigbuf.len = m_len.lo
    THEN 1
    ELSE 0

----------------------------------------------------------------------------
(* RsaSign:                                                                *)
(*   if (!siglen) return 0;                                                *)
(*   unsigned int unsignedSigLen = 0;                                      *)
(*   int32_t ret = RSA_sign(type, m, UnsignedCast(m_len), sigret,          *)
(*                          &unsignedSigLen, rsa);                         *)
(*   assert(unsignedSigLen <= INT32_MAX);                                  *)
(*   *siglen = static_cast<int32_t>(unsignedSigLen);                       *)
(*   return ret;                                                           *)

UnsignedLeq(u, n) == u.hi = 0 /\ u.lo <= n

SigLenPtrs == {NullBuf, "siglen"}

StoredSigLen_Zero(unsignedSigLen) == 0

StoredSigLen(unsignedSigLen) ==
    IF unsignedSigLen.hi = 0 THEN unsignedSigLen.lo ELSE (unsignedSigLen.lo - INT32_MAX) - 1

RsaSign(type, m, m_len, siglen, h) ==
    /\ Idle
    /\ h \in Private
    /\ LET c == [fn |-> "RsaSign", type |-> type, m |-> m, m_len |-> m_len,
                 siglen |-> siglen, rsa |-> h]
       IN IF siglen = NullBuf
          THEN /\ call' = c @@ [prim |-> <<>>, ret |-> 0, out |-> 0, wrote |-> FALSE,
                                outcome |-> "returned"]
               /\ UNCHANGED <<heap, cnt, buf, gen, status>>
          ELSE \E ndebug \in BOOLEAN :
                 IF ~ndebug /\ ~UnsignedCastAsserts(m_len)
                 THEN Aborted(c @@ [prim |-> <<>>, ret |-> 0, out |-> 0, wrote |-> FALSE,
                                    outcome |-> "aborted"])
                 ELSE LET r == RSA_sign(type, m, UnsignedCast(m_len), Unsigned(0), heap[h].mat)
                          p == [fn |-> "RSA_sign", type |-> type, m |-> m,
                                m_len |-> UnsignedCast(m_len), rsa |-> h,
                                ret |-> r.ret, siglen |-> r.siglen]
                      IN IF ~ndebug /\ ~UnsignedLeq(r.siglen, INT32_MAX)
                         THEN Aborted(c @@ [prim |-> <<p>>, ret |-> 0, out |-> 0,
                                            wrote |-> FALSE, outcome |-> "aborted"])
                         ELSE /\ call' = c @@ [prim |-> <<p>>, ret |-> r.ret,
                                               out |-> StoredSigLen(r.siglen),
                                               wrote |-> r.to.kind # "none",
                                               outcome |-> "returned"]
                              /\ buf' = Written(r, StoredSigLen(r.siglen), 0)
                              /\ UNCHANGED <<heap, cnt, gen, status>>

(* RsaVerify:                                                              *)
(*   return RSA_verify(type, m, UnsignedCast(m_len), sigbuf,               *)
(*                     UnsignedCast(siglen), rsa);                         *)

VerifyArgs_Swapped(type, m, m_len, sigbuf, siglen, rsa) ==
    [type |-> type, m |-> m, m_len |-> UnsignedCast(siglen), sigbuf |-> sigbuf,
     siglen |-> UnsignedCast(m_len), rsa |-> rsa]

VerifyArgs(type, m, m_len, sigbuf, siglen, rsa) ==
    [type |-> type, m |-> m, m_len |-> UnsignedCast(m_len), sigbuf |-> sigbuf,
     siglen |-> UnsignedCast(siglen), rsa |-> rsa]

VerifyResult_ErrorOnMismatch(r) == IF r = 0 THEN -1 ELSE r

VerifyResult(r) == r

RsaVerify(type, m, m_len, sigbuf, siglen, h) ==
    /\ Idle
    /\ h \in Populated
    /\ LET c == [fn |-> "RsaVerify", type |-> type, m |-> m, m_len |-> m_len,
                 sigbuf |-> sigbuf, siglen |-> siglen, rsa |-> h]
       IN \E ndebug \in BOOLEAN :
            IF ~ndebug /\ ~(UnsignedCastAsserts(m_len) /\ UnsignedCastAsserts(siglen))
            THEN Aborted(c @@ [prim |-> <<>>, ret |-> 0, outcome |-> "aborted"])
            ELSE LET a == VerifyArgs(type, m, m_len, sigbuf, siglen, h)
                     r == RSA_verify(a.type, a.m, a.m_len, a.sigbuf, a.siglen, heap[a.rsa].mat)
                 IN /\ call' = c @@ [prim |-> <<[fn |-> "RSA_verify", ret |-> r] @@ a>>,
                                     ret |-> VerifyResult(r), outcome |-> "returned"]
                    /\ UNCHANGED <<heap, cnt, buf, gen, status>>


----------------------------------------------------------------------------
(* RsaGenerateKeyEx: return RSA_generate_key_ex(rsa, bits, e, nullptr).    *)
(* The call blocks in the library until the key is found.  The library     *)
(* tries candidate primes one after the other; between trials it calls the *)
(* callback it was given, if any, and stops when the callback returns 0.   *)
(* It stores the key found in the object it was given.                     *)

GenerateArgs_MinBits(rsa, bits, e) ==
    [rsa |-> rsa, bits |-> IF bits < 512 THEN 512 ELSE bits, e |-> e, cb |-> NULL]

GenerateArgs_WithCallback(rsa, bits, e) == [rsa |-> rsa, bits |-> bits, e |-> e, cb |-> 1]

GenerateArgs(rsa, bits, e) == [rsa |-> rsa, bits |-> bits, e |-> e, cb |-> NULL]

RsaGenerateKeyEx(h, bits, e) ==
    /\ Idle
    /\ h \in Live
    /\ gen' = [pc |-> "searching", rsa |-> h,
               req |-> [rsa |-> h, bits |-> bits, e |-> e],
               args |-> GenerateArgs(h, bits, e),
               cancel |-> FALSE, trials |-> 0]
    /\ UNCHANGED <<heap, cnt, buf, call, status>>

(* The caller asks for the generation to stop. *)
RequestCancel ==
    /\ status = "running"
    /\ gen.pc = "searching"
    /\ ~gen.cancel
    /\ gen' = [gen EXCEPT !.cancel = TRUE]
    /\ UNCHANGED <<heap, cnt, buf, call, status>>

GenerateReturn(ret, cancelled) ==
    /\ call' = [fn |-> "RsaGenerateKeyEx", rsa |-> gen.req.rsa, bits |-> gen.req.bits,
                e |-> gen.req.e,
                prim |-> <<[fn |-> "RSA_generate_key_ex", ret |-> ret] @@ gen.args>>,
                ret |-> ret, trials |-> gen.trials, cancelled |-> cancelled,
                cancelRequested |-> gen.cancel, outcome |-> "returned"]
    /\ gen' = NoGen
    /\ UNCHANGED <<cnt, buf, status>>

(* The library returns 0 before it has tried any candidate: it rejects the *)
(* parameters (versions of the library differ in what they reject) or      *)
(* cannot allocate.                                                        *)
RSA_generate_key_ex_Reject ==
    /\ status = "running"
    /\ gen.pc = "searching"
    /\ gen.trials = 0
    /\ heap' = heap
    /\ GenerateReturn(0, FALSE)

(* One primality trial: the callback stops the search, or the candidate is *)
(* rejected, or the key is complete.                                       *)
RSA_generate_key_ex_Trial ==
    /\ status = "running"
    /\ gen.pc = "searching"
    /\ IF gen.args.cb # NULL /\ gen.cancel
       THEN /\ heap' = heap
            /\ GenerateReturn(0, TRUE)
       ELSE \/ /\ gen.trials < MaxTrials
               /\ gen' = [gen EXCEPT !.trials = @ + 1]
               /\ UNCHANGED <<heap, cnt, buf, call, status>>
            \/ \E id \in KeyIds :
                 /\ heap' = [heap EXCEPT ![gen.args.rsa].mat =
                                [id |-> id, k |-> gen.args.bits \div 8, priv |-> TRUE]]
                 /\ GenerateReturn(1, FALSE)

----------------------------------------------------------------------------
(* The calls a caller makes, with the inputs drawn from the given sets.    *)
(* RsaPrivateDecrypt and RsaVerify are given the caller's buffer and the   *)
(* length the caller knows it by (or, for RsaVerify, a negative length).   *)

UpRefs == \E h \in Handles : RsaUpRef(h)
Destroys == \E h \in Handles \cup {NULL} : RsaDestroy(h)
Decodes(bs, lens) == \E b \in bs, len \in lens : DecodeRsaPublicKey(b, len)
Encrypts(flens, ms, fs) ==
    \E flen \in flens, m \in ms, h \in Handles, f \in fs : RsaPublicEncrypt(flen, m, h, f)
Decrypts(fs) == \E h \in Handles, f \in fs : RsaPrivateDecrypt(buf.n, buf, h, f)
Sizes == \E h \in Handles : RsaSize(h)
Signs(ts, ms, lens, ps) ==
    \E t \in ts, m \in ms, len \in lens, p \in ps, h \in Handles : RsaSign(t, m, len, p, h)
Verifies(ts, ms, lens, ns) ==
    \E t \in ts, m \in ms, len \in lens, n \in ns, h \in Handles :
        RsaVerify(t, m, len, buf, n, h)
Generates(bs, es) ==
    \/ \E h \in Handles, bits \in bs, e \in es : RsaGenerateKeyEx(h, bits, e)
    \/ RSA_generate_key_ex_Reject
    \/ RSA_generate_key_ex_Trial

(* Every operation of the interface, on a few inputs each. *)
Next ==
    \/ RsaCreate
    \/ UpRefs
    \/ Destroys
    \/ Decodes({"der1"}, {DerLen})
    \/ Generates({512}, {65537})
    \/ Encrypts({22}, {"a"}, {1})
    \/ Decrypts({1})
    \/ Sizes
    \/ Signs({64}, {"a"}, {20}, {"siglen"})
    \/ Verifies({64}, {"a"}, {20}, {buf.n})

Spec == Init /\ [][Next]_vars

(* The lifetime of the key objects. *)
NextLife ==
    \/ RsaCreate
    \/ UpRefs
    \/ Destroys
    \/ Decodes(Bufs, DecodeLens)

SpecLife == Init /\ [][NextLife]_vars

(* Key generation. *)
NextGen ==
    \/ RsaCreate
    \/ Generates(GenBits, Exponents)
    \/ RequestCancel
    \/ Sizes

SpecGen == Init /\ [][NextGen]_vars

(* Encryption and decryption, with generated and decoded keys. *)
NextCrypt ==
    \/ RsaCreate
    \/ Decodes({"der1"}, {DerLen})
    \/ Generates({512}, {65537})
    \/ Encrypts(FLens, Msgs, Flags)
    \/ Decrypts(Flags)
    \/ Sizes

SpecCrypt == Init /\ [][NextCrypt]_vars

(* Signing and verification, with generated and decoded keys. *)
NextSign ==
    \/ RsaCreate
    \/ Decodes({"der1"}, {DerLen})
    \/ Generates({512}, {65537})
    \/ Signs(Types, Msgs, MLens, SigLenPtrs)
    \/ Verifies(Types, Msgs, MLens, {buf.n, -1})

SpecSign == Init /\ [][NextSign]_vars

----------------------------------------------------------------------------
(* Properties *)

PrimCall == call.prim[1]

(* C1: DecodeRsaPublicKey given a null buffer or a length of 0 returns     *)
(* null: it does not call the decoder (so nothing reads the buffer) and    *)
(* the process goes on running.                                            *)
C1_AbsentInputGivesNoKey ==
    (call.fn = "DecodeRsaPublicKey" /\ (call.buf = NullBuf \/ call.len = 0))
        => /\ call.ret = NULL
           /\ call.prim = <<>>
           /\ call.outcome = "returned"
           /\ status = "running"

C1_Witness ==
    /\ call.fn = "DecodeRsaPublicKey"
    /\ call.buf = NullBuf
    /\ call.len # 0
    /\ call.ret = NULL

KeyLifetime(h) ==
    /\ (heap[h].st = "freed") <=> (cnt[h].de = 1 + cnt[h].up)
    /\ (heap[h].st = "live") <=> (cnt[h].de < 1 + cnt[h].up)
    /\ heap[h].st = "live" => heap[h].refs = 1 + cnt[h].up - cnt[h].de
    /\ cnt[h].fr = IF heap[h].st = "freed" THEN 1 ELSE 0

(* C2, as stated: for every sequence of calls on a key, the key is freed   *)
(* once the RsaDestroy calls have reached 1 + the RsaUpRef calls, not      *)
(* before, and at most once.                                               *)
C2_Original ==
    \A h \in Obtained :
        /\ (heap[h].st = "freed") <=> (cnt[h].de >= 1 + cnt[h].up)
        /\ cnt[h].fr <= 1

(* C2, amended: as long as no call has been made on a key after it was     *)
(* freed, the key is freed exactly when the RsaDestroy calls on it reach   *)
(* 1 + the RsaUpRef calls on it, it holds 1 + uprefs - destroys references *)
(* until then, and it is freed at most once; RsaDestroy(nullptr) changes   *)
(* no key.                                                                 *)
C2_FreedByLastRelease ==
    /\ [](\A h \in Obtained : ~cnt[h].dangling => KeyLifetime(h))
    /\ [][(call' # call /\ call'.fn = "RsaDestroy" /\ call'.rsa = NULL)
            => (heap' = heap /\ cnt' = cnt)]_vars

C2_Witness ==
    \E h \in Obtained :
        /\ heap[h].st = "freed"
        /\ ~cnt[h].dangling
        /\ cnt[h].up = MaxUpRef
        /\ cnt[h].de = MaxUpRef + 1

(* C3: RsaVerify returns 1 or 0 for every input whose lengths are not      *)
(* negative, 0 being what the library returns for a signature that does    *)
(* not verify; the call stops the process only for a negative length.      *)
C3_MismatchIsZero ==
    call.fn = "RsaVerify"
        => /\ (call.m_len >= 0 /\ call.siglen >= 0)
                => (call.outcome = "returned" /\ call.ret \in {0, 1})
           /\ call.outcome = "returned" => call.ret = PrimCall.ret
           /\ call.outcome = "aborted" => (call.m_len < 0 \/ call.siglen < 0)

C3_Witness ==
    /\ call.fn = "RsaVerify"
    /\ call.m_len >= 0 /\ call.siglen >= 0
    /\ call.sigbuf.kind = "sig"
    /\ call.ret = 0

SameKeyPair(b, h) == b.key = heap[h].mat.id /\ b.k = heap[h].mat.k

(* C4: RsaPrivateDecrypt, given the ciphertext RsaPublicEncrypt produced   *)
(* for the same key pair, with the length it returned and the same padding *)
(* flag, returns the length of the plaintext and leaves the plaintext in   *)
(* the buffer.                                                             *)
C4_DecryptInvertsEncrypt ==
    (/\ call.fn = "RsaPrivateDecrypt"
     /\ call.from.kind = "ct"
     /\ SameKeyPair(call.from, call.rsa)
     /\ call.flen = call.from.n
     /\ call.flag = call.from.flag)
        => /\ call.ret = call.from.len
           /\ buf.kind = "pt"
           /\ buf.msg = call.from.msg
           /\ buf.len = call.from.len

C4_Witness ==
    /\ call.fn = "RsaPrivateDecrypt"
    /\ call.from.kind = "ct"
    /\ call.flag = call.from.flag
    /\ call.flag # 0
    /\ call.ret = 22
    /\ buf.msg = "b"

(* C5: RsaVerify returns 1 when it is given the signature RsaSign produced *)
(* with the private key of the same pair, with the length RsaSign stored   *)
(* in *siglen, for the same digest type and hash.                          *)
C5_VerifyAcceptsSign ==
    (/\ call.fn = "RsaVerify"
     /\ call.sigbuf.kind = "sig"
     /\ SameKeyPair(call.sigbuf, call.rsa)
     /\ call.siglen = call.sigbuf.n
     /\ call.type = call.sigbuf.mode
     /\ call.m_len = call.sigbuf.len
     /\ call.m = call.sigbuf.msg)
        => (call.outcome = "returned" /\ call.ret = 1)

C5_Witness ==
    /\ call.fn = "RsaVerify"
    /\ call.sigbuf.kind = "sig"
    /\ call.type = 672
    /\ call.ret = 1

(* C6, as stated: a request for fewer than 512 bits is rejected before any *)
(* prime is searched for and produces no key.                              *)
C6_Original ==
    (call.fn = "RsaGenerateKeyEx" /\ call.bits < 512)
        => (call.ret = 0 /\ call.trials = 0)

(* C6, amended: RsaGenerateKeyEx does not validate the bit length: for     *)
(* every request, below 512 bits or not, it calls the library's generation *)
(* once with the handle, the bit length and the exponent it was given, and *)
(* returns the library's result; a rejection of a small bit length is the  *)
(* library's, if it makes one.                                             *)
C6_BitsForwardedUnchecked ==
    /\ gen.pc = "searching"
         => /\ gen.args.rsa = gen.req.rsa
            /\ gen.args.bits = gen.req.bits
            /\ gen.args.e = gen.req.e
    /\ call.fn = "RsaGenerateKeyEx"
         => /\ Len(call.prim) = 1
            /\ PrimCall.rsa = call.rsa
            /\ PrimCall.bits = call.bits
            /\ PrimCall.e = call.e
            /\ call.ret = PrimCall.ret

C6_Witness ==
    /\ call.fn = "RsaGenerateKeyEx"
    /\ call.bits = 256
    /\ call.ret = 1
    /\ heap[call.rsa].mat.k * 8 = 256

GenerationEndsOn(h) == gen.pc = "searching" /\ gen.args.rsa = h /\ gen'.pc = "idle"

(* C8, as stated: no operation changes the material of a populated key     *)
(* while the key is alive.                                                 *)
C8_Original ==
    [][\A h \in Handles :
         (heap[h].st = "live" /\ heap[h].mat # NoMat /\ heap'[h].st = "live")
            => heap'[h].mat = heap[h].mat]_vars

(* C8, amended: no operation other than a generation on that same handle   *)
(* changes the material of a populated key while the key is alive; a       *)
(* RsaGenerateKeyEx call that succeeds on a populated handle replaces it.  *)
C8_OnlyGenerateReplaces ==
    [][\A h \in Handles :
         (/\ heap[h].st = "live" /\ heap[h].mat # NoMat /\ heap'[h].st = "live"
          /\ ~GenerationEndsOn(h))
            => heap'[h].mat = heap[h].mat]_vars

C8_Witness ==
    /\ call.fn = "RsaPrivateDecrypt"
    /\ call.ret = 22
    /\ cnt[call.rsa].up > 0
    /\ cnt[call.rsa].de > 0
    /\ heap[call.rsa].mat.priv

(* C9: RsaPublicEncrypt and RsaPrivateDecrypt pass PKCS#1 v1.5 padding for *)
(* flag 0 and OAEP padding for every other flag, pass the length, the      *)
(* input buffer and the key as given, return what the primitive returns    *)
(* and leave in the output buffer what the primitive wrote.                *)
C9_FlagSelectsPadding ==
    call.fn \in {"RsaPublicEncrypt", "RsaPrivateDecrypt"}
        => /\ Len(call.prim) = 1
           /\ PrimCall.fn = (IF call.fn = "RsaPublicEncrypt"
                             THEN "RSA_public_encrypt" ELSE "RSA_private_decrypt")
           /\ PrimCall.padding = (IF call.flag = 0 THEN RSA_PKCS1_PADDING
                                                   ELSE RSA_PKCS1_OAEP_PADDING)
           /\ PrimCall.flen = call.flen
           /\ PrimCall.from = call.from
           /\ PrimCall.rsa = call.rsa
           /\ call.ret = PrimCall.ret
           /\ PrimCall.to.kind # "none"
                => (buf.kind = PrimCall.to.kind /\ buf.msg = PrimCall.to.msg
                    /\ buf.len = PrimCall.to.len)

C9_Witness ==
    /\ call.fn = "RsaPublicEncrypt"
    /\ call.flag = -1
    /\ PrimCall.padding = RSA_PKCS1_OAEP_PADDING
    /\ call.ret = 64

SignForwards ==
    /\ call.outcome = "returned"
    /\ Len(call.prim) = 1
    /\ Unsigned(call.out) = PrimCall.siglen
    /\ call.ret = PrimCall.ret

SignRefuses ==
    /\ call.outcome = "returned"
    /\ call.ret = 0
    /\ call.prim = <<>>
    /\ ~call.wrote

(* C10, as stated: with siglen null RsaSign returns 0 without calling the  *)
(* primitive or writing the buffer; with siglen present it calls the       *)
(* primitive once, stores the length the primitive reported and returns    *)
(* the primitive's result.                                                 *)
C10_Original ==
    call.fn = "RsaSign"
        => IF call.siglen = NullBuf THEN SignRefuses ELSE SignForwards

(* C10, amended: the same when m_len is not negative; given a negative     *)
(* m_len and a siglen, a build with assertions stops in UnsignedCast       *)
(* before the primitive is called.                                         *)
C10_SignForwardsOrRefuses ==
    call.fn = "RsaSign"
        => IF call.siglen = NullBuf THEN SignRefuses
           ELSE IF call.m_len >= 0 THEN SignForwards
           ELSE SignForwards \/ (call.outcome = "aborted" /\ call.prim = <<>>)

C10_Witness ==
    /\ call.fn = "RsaSign"
    /\ call.siglen # NullBuf
    /\ call.m_len = 20
    /\ call.type = 672
    /\ call.ret = 0
    /\ call.out = 0

====
